---- MODULE Spec2Model ----
(***************************************************************************)
(* Model of the execute_command program: the CLI driver (main.go), the     *)
(* configuration parser and validator (parser), the strategy factory, the  *)
(* shell resolver and the Plain / Base64 execution strategies (executor).  *)
(*                                                                         *)
(* A Go string is modelled as the sequence of its bytes (0..255), which is *)
(* what a Go string is; program names and option words that the code       *)
(* writes as literals are kept as TLA+ strings.                            *)
(***************************************************************************)
EXTENDS Integers, Sequences, FiniteSets, TLC

(***************************************************************************)
(* Bounds of the model.                                                    *)
(***************************************************************************)
\* Largest number of positional arguments that follow the action word.
MaxArgs == 2
\* Longest free-form string handed to the library operations.
MaxLen == 2

(***************************************************************************)
(* Enumerations (executor.go, parser.go)                                   *)
(***************************************************************************)
Base64Type == 0
PlainType == 1

AutoShell == 0
CMDShell == 1
PowerShellShell == 2
ShShell == 3

DEBUG == 0
INFO == 1
WARN == 2
ERROR == 3
FATAL == 4

\* ExecutorType.String
ExecutorTypeString(et) ==
    IF et = Base64Type THEN "base64"
    ELSE IF et = PlainType THEN "plain"
    ELSE "base64"

\* ShellType.String
ShellTypeString(st) ==
    IF st = AutoShell THEN "auto"
    ELSE IF st = CMDShell THEN "cmd"
    ELSE IF st = PowerShellShell THEN "powershell"
    ELSE IF st = ShShell THEN "sh"
    ELSE "auto"

\* strings.ToLower / strings.ToUpper on the flag words the model feeds in.
ToLower(s) ==
    IF s = "CMD" THEN "cmd"
    ELSE IF s = "Plain" THEN "plain"
    ELSE s

ToUpper(s) ==
    IF s = "debug" THEN "DEBUG"
    ELSE IF s = "fatal" THEN "FATAL"
    ELSE s

\* ParseShellType
ParseShellType(shell) ==
    LET l == ToLower(shell) IN
    IF l = "cmd" THEN CMDShell
    ELSE IF l \in {"powershell", "ps", "ps1"} THEN PowerShellShell
    ELSE IF l = "sh" THEN ShShell
    ELSE IF l = "auto" THEN AutoShell
    ELSE AutoShell

\* ParseExecutorType
ParseExecutorType(executor) ==
    LET l == ToLower(executor) IN
    IF l = "base64" THEN Base64Type
    ELSE IF l = "plain" THEN PlainType
    ELSE Base64Type

\* ParseLogLevel
ParseLogLevel(level) ==
    LET u == ToUpper(level) IN
    IF u = "DEBUG" THEN DEBUG
    ELSE IF u = "INFO" THEN INFO
    ELSE IF u \in {"WARN", "WARNING"} THEN WARN
    ELSE IF u = "ERROR" THEN ERROR
    ELSE IF u = "FATAL" THEN FATAL
    ELSE INFO

\* IsWindows: runtime.GOOS == "windows"
IsWindows(os) == os = "windows"

(***************************************************************************)
(* Byte strings                                                            *)
(***************************************************************************)

\* "dir"
StrDir == <<100, 105, 114>>
\* "ZGly"
StrZGly == <<90, 71, 108, 121>>
\* "ZABpAHIA"
StrDirUtf16 == <<90, 65, 66, 112, 65, 72, 73, 65>>
\* "ipconfig"
StrIpconfig == <<105, 112, 99, 111, 110, 102, 105, 103>>
\* "ifconfig"
StrIfconfig == <<105, 102, 99, 111, 110, 102, 105, 103>>
\* "execute"
StrExecute == <<101, 120, 101, 99, 117, 116, 101>>
\* "encode"
StrEncode == <<101, 110, 99, 111, 100, 101>>
\* "decode"
StrDecode == <<100, 101, 99, 111, 100, 101>>
\* "info"
StrInfo == <<105, 110, 102, 111>>
\* "bogus"
StrBogus == <<98, 111, 103, 117, 115>>
\* "!"
StrBang == <<33>>
\* "echo '"
StrEchoOpen == <<101, 99, 104, 111, 32, 39>>
\* "' | base64 -d | sh"
StrPipeTail == <<39, 32, 124, 32, 98, 97, 115, 101, 54, 52, 32, 45, 100, 32, 124, 32, 115, 104>>

\* strings.Join(parts, " ")
RECURSIVE JoinSpace(_)
JoinSpace(parts) ==
    IF Len(parts) = 0 THEN <<>>
    ELSE IF Len(parts) = 1 THEN parts[1]
    ELSE parts[1] \o <<32>> \o JoinSpace(Tail(parts))

(***************************************************************************)
(* encoding/base64, StdEncoding                                            *)
(***************************************************************************)
\* The character of a 6-bit value in the standard alphabet (A-Z a-z 0-9 + /).
B64Char(v) ==
    IF v < 26 THEN 65 + v
    ELSE IF v < 52 THEN 97 + (v - 26)
    ELSE IF v < 62 THEN 48 + (v - 52)
    ELSE IF v = 62 THEN 43
    ELSE 47

\* The 6-bit value of a character, -1 for a character outside the alphabet.
B64Index(c) ==
    IF c >= 65 /\ c <= 90 THEN c - 65
    ELSE IF c >= 97 /\ c <= 122 THEN c - 97 + 26
    ELSE IF c >= 48 /\ c <= 57 THEN c - 48 + 52
    ELSE IF c = 43 THEN 62
    ELSE IF c = 47 THEN 63
    ELSE -1

\* '='
PadChar == 61

\* base64.StdEncoding.EncodeToString
RECURSIVE EncodeToString(_)
EncodeToString(b) ==
    IF Len(b) = 0 THEN <<>>
    ELSE IF Len(b) = 1 THEN
        <<B64Char(b[1] \div 4), B64Char((b[1] % 4) * 16), PadChar, PadChar>>
    ELSE IF Len(b) = 2 THEN
        <<B64Char(b[1] \div 4),
          B64Char(((b[1] % 4) * 16) + (b[2] \div 16)),
          B64Char((b[2] % 16) * 4),
          PadChar>>
    ELSE
        <<B64Char(b[1] \div 4),
          B64Char(((b[1] % 4) * 16) + (b[2] \div 16)),
          B64Char(((b[2] % 16) * 4) + (b[3] \div 64)),
          B64Char(b[3] % 64)>>
        \o EncodeToString(SubSeq(b, 4, Len(b)))

\* The decoder skips carriage returns and line feeds.
StripNewlines(s) == SelectSeq(s, LAMBDA c : c # 10 /\ c # 13)

\* One quantum of four characters: [ok, bytes]; padding is legal only when
\* last is TRUE (the quantum ends the input).
DecodeQuantum(q, last) ==
    LET v1 == B64Index(q[1])
        v2 == B64Index(q[2])
        v3 == B64Index(q[3])
        v4 == B64Index(q[4])
    IN  IF v1 < 0 \/ v2 < 0 THEN [ok |-> FALSE, bytes |-> <<>>]
        ELSE IF v3 >= 0 /\ v4 >= 0 THEN
            [ok |-> TRUE,
             bytes |-> <<(v1 * 4) + (v2 \div 16), ((v2 % 16) * 16) + (v3 \div 4), ((v3 % 4) * 64) + v4>>]
        ELSE IF last /\ v3 >= 0 /\ q[4] = PadChar THEN
            [ok |-> TRUE, bytes |-> <<(v1 * 4) + (v2 \div 16), ((v2 % 16) * 16) + (v3 \div 4)>>]
        ELSE IF last /\ q[3] = PadChar /\ q[4] = PadChar THEN
            [ok |-> TRUE, bytes |-> <<(v1 * 4) + (v2 \div 16)>>]
        ELSE [ok |-> FALSE, bytes |-> <<>>]

RECURSIVE DecodeQuanta(_)
DecodeQuanta(s) ==
    IF Len(s) = 0 THEN [ok |-> TRUE, bytes |-> <<>>]
    ELSE IF Len(s) < 4 THEN [ok |-> FALSE, bytes |-> <<>>]
    ELSE LET q == DecodeQuantum(SubSeq(s, 1, 4), Len(s) = 4)
             rest == DecodeQuanta(SubSeq(s, 5, Len(s)))
         IN  IF q.ok /\ rest.ok
             THEN [ok |-> TRUE, bytes |-> q.bytes \o rest.bytes]
             ELSE [ok |-> FALSE, bytes |-> <<>>]

\* base64.StdEncoding.DecodeString: [ok, bytes]
DecodeString(s) == DecodeQuanta(StripNewlines(s))

(***************************************************************************)
(* []rune(string) and unicode/utf16.Encode                                 *)
(***************************************************************************)
\* U+FFFD, the replacement character
RuneError == 65533

\* A continuation byte 10xxxxxx
IsCont(b) == b >= 128 /\ b <= 191

\* The first rune of a non-empty byte string and its width, as the UTF-8
\* decoder of the Go runtime yields it: ill-formed input (a stray
\* continuation byte, a truncated, overlong or surrogate sequence, a value
\* above U+10FFFF) gives RuneError with width 1.
DecodeRune(b) ==
    LET b1 == b[1]
        n == Len(b)
        bad == [r |-> RuneError, w |-> 1]
    IN  IF b1 < 128 THEN [r |-> b1, w |-> 1]
        ELSE IF b1 >= 194 /\ b1 <= 223 THEN
            IF n >= 2 /\ IsCont(b[2])
            THEN [r |-> (b1 % 32) * 64 + (b[2] % 64), w |-> 2]
            ELSE bad
        ELSE IF b1 >= 224 /\ b1 <= 239 THEN
            IF n >= 3 /\ IsCont(b[2]) /\ IsCont(b[3])
               /\ (b1 = 224 => b[2] >= 160)
               /\ (b1 = 237 => b[2] <= 159)
            THEN [r |-> (b1 % 16) * 4096 + (b[2] % 64) * 64 + (b[3] % 64), w |-> 3]
            ELSE bad
        ELSE IF b1 >= 240 /\ b1 <= 244 THEN
            IF n >= 4 /\ IsCont(b[2]) /\ IsCont(b[3]) /\ IsCont(b[4])
               /\ (b1 = 240 => b[2] >= 144)
               /\ (b1 = 244 => b[2] <= 143)
            THEN [r |-> (b1 % 8) * 262144 + (b[2] % 64) * 4096
                        + (b[3] % 64) * 64 + (b[4] % 64),
                  w |-> 4]
            ELSE bad
        ELSE bad

\* []rune(s)
RECURSIVE Runes(_)
Runes(s) ==
    IF Len(s) = 0 THEN <<>>
    ELSE LET d == DecodeRune(s) IN <<d.r>> \o Runes(SubSeq(s, d.w + 1, Len(s)))

\* utf16.Encode of one rune
EncodeRune16(r) ==
    IF (r >= 0 /\ r < 55296) \/ (r >= 57344 /\ r < 65536) THEN <<r>>
    ELSE IF r >= 65536 /\ r <= 1114111 THEN
        <<55296 + (((r - 65536) \div 1024) % 1024), 56320 + ((r - 65536) % 1024)>>
    ELSE <<RuneError>>

\* utf16.Encode
RECURSIVE Utf16Encode(_)
Utf16Encode(runes) ==
    IF Len(runes) = 0 THEN <<>>
    ELSE EncodeRune16(runes[1]) \o Utf16Encode(Tail(runes))

\* string(bytes): the bytes themselves
BytesToString(b) == b

(***************************************************************************)
(* State                                                                   *)
(***************************************************************************)
VARIABLES
    argv,          \* the command line: raw flag words and positional arguments
    hostOS,        \* runtime.GOOS
    pc,            \* position of main
    config,        \* *parser.Config returned by ParseConfig
    globalLogger,  \* level of utils.globalLogger, -1 while it is nil
    shellType,     \* main's local shellType, the shell handed to the factory
    cmdExecutor,   \* the strategy instance
    spawned,       \* the processes started so far, in order
    child,         \* "none", "running", "exited" or "failed to start"
    childCode,     \* exit code of the child, -1 while there is none
    stdout,        \* what fmt.Print* wrote
    logs,          \* the lines the logger wrote
    exitCode,      \* exit code of the program, -1 while it runs
    events,        \* the calls made so far, in order
    err,           \* the error main holds: "" for nil, else its kind
    call           \* the last library call and its result (ApiSpec)

vars == <<argv, hostOS, pc, config, globalLogger, shellType, cmdExecutor,
          spawned, child, childCode, stdout, logs, exitCode, events, err, call>>

NoConfig == [LogLevel |-> -1, ShellType |-> -1, ExecutorType |-> -1,
             Help |-> FALSE, Action |-> <<>>, Args |-> <<>>, nil |-> TRUE]

NoExecutor == [kind |-> "none", shellType |-> -1, defaultCommand |-> <<>>]

NoInvocation == [prog |-> "", opt |-> "", payload |-> <<>>]

\* A line written by fmt.Printf / fmt.Println: a fixed text and the string
\* formatted into it
Line(label, text) == [label |-> label, text |-> text]

NoCall == [op |-> "none", arg |-> <<>>, shell |-> -1, out |-> <<>>,
           err |-> FALSE, inv |-> NoInvocation]

(***************************************************************************)
(* utils: the logger                                                       *)
(***************************************************************************)
\* SimpleLogger.logWithModule: a line below the logger's level is dropped.
logWithModule(lines, level, module, msg) ==
    IF level < globalLogger THEN lines
    ELSE Append(lines, [level |-> level, module |-> module, msg |-> msg])

(***************************************************************************)
(* executor: shell resolver                                                *)
(***************************************************************************)
\* exec.Command(name, opt, payload)
Command(name, opt, payload) == [prog |-> name, opt |-> opt, payload |-> payload]

\* Variant: auto resolved to PowerShell on Windows
GetShellCommandAutoPowerShell(command, st) ==
    LET resolved == IF st = AutoShell
                    THEN (IF IsWindows(hostOS) THEN PowerShellShell ELSE ShShell)
                    ELSE st
    IN  IF resolved = CMDShell THEN Command("cmd", "/C", command)
        ELSE IF resolved = PowerShellShell THEN Command("powershell", "-Command", command)
        ELSE IF resolved = ShShell THEN Command("sh", "-c", command)
        ELSE IF IsWindows(hostOS) THEN Command("cmd", "/C", command)
        ELSE Command("sh", "-c", command)

\* Variant: no fallback, a value outside the enumeration is run by its name
GetShellCommandNoFallback(command, st) ==
    LET resolved == IF st = AutoShell
                    THEN (IF IsWindows(hostOS) THEN CMDShell ELSE ShShell)
                    ELSE st
    IN  IF resolved = CMDShell THEN Command("cmd", "/C", command)
        ELSE IF resolved = PowerShellShell THEN Command("powershell", "-Command", command)
        ELSE IF resolved = ShShell THEN Command("sh", "-c", command)
        ELSE Command(ShellTypeString(resolved), "-c", command)

\* GetShellCommand
GetShellCommand(command, st) ==
    LET resolved == IF st = AutoShell
                    THEN (IF IsWindows(hostOS) THEN CMDShell ELSE ShShell)
                    ELSE st
    IN  IF resolved = CMDShell THEN Command("cmd", "/C", command)
        ELSE IF resolved = PowerShellShell THEN Command("powershell", "-Command", command)
        ELSE IF resolved = ShShell THEN Command("sh", "-c", command)
        ELSE IF IsWindows(hostOS) THEN Command("cmd", "/C", command)
        ELSE Command("sh", "-c", command)

\* Variant: the payload between double quotes
PipeCommandDoubleQuoted(encodedCommand) ==
    <<101, 99, 104, 111, 32, 34>> \o encodedCommand \o <<34>> \o Tail(StrPipeTail)

\* fmt.Sprintf("echo '%s' | base64 -d | sh", encodedCommand)
PipeCommand(encodedCommand) == StrEchoOpen \o encodedCommand \o StrPipeTail

\* GetShellCommandForBase64
GetShellCommandForBase64(encodedCommand, st) ==
    LET resolved == IF st = AutoShell
                    THEN (IF IsWindows(hostOS) THEN CMDShell ELSE ShShell)
                    ELSE st
    IN  IF resolved = CMDShell THEN Command("cmd", "/C", encodedCommand)
        ELSE IF resolved = PowerShellShell
            THEN Command("powershell", "-EncodedCommand", encodedCommand)
        ELSE IF resolved = ShShell THEN Command("sh", "-c", PipeCommand(encodedCommand))
        ELSE IF IsWindows(hostOS) THEN Command("cmd", "/C", encodedCommand)
        ELSE Command("sh", "-c", PipeCommand(encodedCommand))

(***************************************************************************)
(* executor: the strategies                                                *)
(***************************************************************************)
\* Variant: high byte first
RECURSIVE utf16BytesBigEndian(_)
utf16BytesBigEndian(units) ==
    IF Len(units) = 0 THEN <<>>
    ELSE <<(units[1] \div 256) % 256, units[1] % 256>>
         \o utf16BytesBigEndian(Tail(units))

\* The little-endian bytes of a sequence of UTF-16 code units
\* (the loop of encodeForPowerShell).
RECURSIVE utf16Bytes(_)
utf16Bytes(units) ==
    IF Len(units) = 0 THEN <<>>
    ELSE <<units[1] % 256, (units[1] \div 256) % 256>> \o utf16Bytes(Tail(units))

\* Base64Executor.encodeForPowerShell
encodeForPowerShell(command) ==
    EncodeToString(utf16Bytes(Utf16Encode(Runes(command))))

\* getDefaultPlainCommand
getDefaultPlainCommand ==
    IF IsWindows(hostOS) THEN StrIpconfig ELSE StrIfconfig

\* getDefaultBase64Command
getDefaultBase64Command ==
    IF IsWindows(hostOS)
    THEN EncodeToString(utf16Bytes(Utf16Encode(Runes(StrIpconfig))))
    ELSE EncodeToString(StrIfconfig)

\* NewPlainExecutorWithShell
NewPlainExecutorWithShell(st) ==
    [kind |-> "plain", shellType |-> st, defaultCommand |-> getDefaultPlainCommand]

\* NewBase64ExecutorWithShell
NewBase64ExecutorWithShell(st) ==
    [kind |-> "base64", shellType |-> st, defaultCommand |-> getDefaultBase64Command]

\* ExecutorFactory.CreateExecutorWithShell
CreateExecutorWithShell(executorType, st) ==
    IF executorType = Base64Type THEN NewBase64ExecutorWithShell(st)
    ELSE IF executorType = PlainType THEN NewPlainExecutorWithShell(st)
    ELSE NewBase64ExecutorWithShell(st)

\* Variant: the base64 strategy encodes UTF-16LE whatever its shell
EncodeCommandAlwaysUtf16(ex, command) ==
    IF ex.kind = "plain" THEN command
    ELSE encodeForPowerShell(command)

\* PlainExecutor.EncodeCommand / Base64Executor.EncodeCommand
EncodeCommand(ex, command) ==
    IF ex.kind = "plain" THEN command
    ELSE IF ex.shellType = PowerShellShell THEN encodeForPowerShell(command)
    ELSE EncodeToString(command)

\* Variant: the plain strategy decodes base64 like the base64 strategy
DecodeCommandPlainDecodes(ex, encodedCommand) ==
    LET d == DecodeString(encodedCommand)
    IN  IF ~d.ok THEN [out |-> <<>>, err |-> TRUE]
        ELSE [out |-> BytesToString(d.bytes), err |-> FALSE]

\* PlainExecutor.DecodeCommand / Base64Executor.DecodeCommand: [out, err]
DecodeCommand(ex, encodedCommand) ==
    IF ex.kind = "plain" THEN [out |-> encodedCommand, err |-> FALSE]
    ELSE LET d == DecodeString(encodedCommand)
         IN  IF ~d.ok THEN [out |-> <<>>, err |-> TRUE]
             ELSE [out |-> BytesToString(d.bytes), err |-> FALSE]

\* Variant: ExecuteCommand never substitutes the default command
ExecutePlanNeverDefault(ex, command) ==
    IF ex.kind = "plain" THEN
        [useDefault |-> FALSE, direct |-> FALSE, decodeErr |-> FALSE,
         inv |-> GetShellCommand(command, ex.shellType)]
    ELSE IF ex.shellType = PowerShellShell \/ ex.shellType = ShShell THEN
        [useDefault |-> FALSE, direct |-> TRUE, decodeErr |-> FALSE,
         inv |-> GetShellCommandForBase64(command, ex.shellType)]
    ELSE LET d == DecodeCommand(ex, command)
         IN  IF d.err THEN
                 [useDefault |-> FALSE, direct |-> FALSE, decodeErr |-> TRUE,
                  inv |-> NoInvocation]
             ELSE
                 [useDefault |-> FALSE, direct |-> FALSE, decodeErr |-> FALSE,
                  inv |-> GetShellCommand(d.out, ex.shellType)]

\* Variant: a payload that does not decode is run as the empty command
ExecutePlanIgnoresDecodeError(ex, command) ==
    LET useDefault == command = <<>>
        cmd == IF useDefault THEN ex.defaultCommand ELSE command
    IN  IF ex.kind = "plain" THEN
            [useDefault |-> useDefault, direct |-> FALSE, decodeErr |-> FALSE,
             inv |-> GetShellCommand(cmd, ex.shellType)]
        ELSE IF ex.shellType = PowerShellShell \/ ex.shellType = ShShell THEN
            [useDefault |-> useDefault, direct |-> TRUE, decodeErr |-> FALSE,
             inv |-> GetShellCommandForBase64(cmd, ex.shellType)]
        ELSE [useDefault |-> useDefault, direct |-> FALSE, decodeErr |-> FALSE,
              inv |-> GetShellCommand(DecodeCommand(ex, cmd).out, ex.shellType)]

\* The part of ExecuteCommand that runs before cmd.Run: the command after
\* the default is substituted, whether the payload goes to the shell still
\* encoded, whether local decoding failed, and the invocation to run.
ExecutePlan(ex, command) ==
    LET useDefault == command = <<>>
        cmd == IF useDefault THEN ex.defaultCommand ELSE command
    IN  IF ex.kind = "plain" THEN
            [useDefault |-> useDefault, direct |-> FALSE, decodeErr |-> FALSE,
             inv |-> GetShellCommand(cmd, ex.shellType)]
        ELSE IF ex.shellType = PowerShellShell \/ ex.shellType = ShShell THEN
            [useDefault |-> useDefault, direct |-> TRUE, decodeErr |-> FALSE,
             inv |-> GetShellCommandForBase64(cmd, ex.shellType)]
        ELSE LET d == DecodeCommand(ex, cmd)
             IN  IF d.err THEN
                     [useDefault |-> useDefault, direct |-> FALSE, decodeErr |-> TRUE,
                      inv |-> NoInvocation]
                 ELSE
                     [useDefault |-> useDefault, direct |-> FALSE, decodeErr |-> FALSE,
                      inv |-> GetShellCommand(d.out, ex.shellType)]

\* The logger's module tag of a strategy
ModuleOf(ex) == IF ex.kind = "plain" THEN "executor.plain" ELSE "executor.base64"

\* The lines ExecuteCommand logs before cmd.Run
ExecuteLogsBefore(lines, ex, plan) ==
    LET m == ModuleOf(ex)
        l1 == logWithModule(lines, INFO, m,
                            IF plan.useDefault THEN "Using default command"
                            ELSE "Executing command")
        l2 == IF ex.kind = "plain" THEN l1
              ELSE logWithModule(l1, DEBUG, m, "Executing base64 command (shell)")
    IN  IF plan.decodeErr THEN logWithModule(l2, ERROR, m, "Failed to decode base64")
        ELSE logWithModule(l2, DEBUG, m, "Executing")

\* The lines ExecuteCommand logs after cmd.Run returned
ExecuteLogsAfter(lines, ex, runErr) ==
    IF runErr THEN logWithModule(lines, ERROR, ModuleOf(ex), "Command execution failed")
    ELSE logWithModule(lines, INFO, ModuleOf(ex), "Command executed successfully")

(***************************************************************************)
(* parser                                                                  *)
(***************************************************************************)
\* ParseConfig: [err, config]
ParseConfig(av) ==
    IF ~av.help /\ Len(av.args) < 1 THEN [err |-> TRUE, config |-> NoConfig]
    ELSE [err |-> FALSE,
          config |-> [LogLevel |-> ParseLogLevel(av.logLevel),
                      ShellType |-> ParseShellType(av.shell),
                      ExecutorType |-> ParseExecutorType(av.executor),
                      Help |-> av.help,
                      Action |-> IF Len(av.args) > 0 THEN av.args[1] ELSE <<>>,
                      Args |-> av.args,
                      nil |-> FALSE]]

\* Variant: the validator also rejects the base64 executor with the auto shell
CompatibilityAlsoRejectsAuto(c) ==
    /\ ExecutorTypeString(c.ExecutorType) = "base64"
    /\ ShellTypeString(c.ShellType) \in {"cmd", "auto"}

\* Config.ValidateExecutorShellCompatibility: TRUE when it returns an error
ValidateExecutorShellCompatibility(c) ==
    ExecutorTypeString(c.ExecutorType) = "base64" /\ ShellTypeString(c.ShellType) = "cmd"

\* Variant: ValidateAction without the compatibility check
ValidateActionNoCompatibility(c) ==
    IF c.Help THEN ""
    ELSE IF c.Action = StrExecute THEN ""
    ELSE IF c.Action = StrEncode THEN (IF Len(c.Args) < 2 THEN "usage" ELSE "")
    ELSE IF c.Action = StrDecode THEN (IF Len(c.Args) < 2 THEN "usage" ELSE "")
    ELSE IF c.Action = StrInfo THEN ""
    ELSE "unknown action"

\* Variant: ValidateAction lets an unknown action through
ValidateActionAcceptsUnknown(c) ==
    IF c.Help THEN ""
    ELSE IF ValidateExecutorShellCompatibility(c) THEN "compatibility"
    ELSE IF c.Action = StrExecute THEN ""
    ELSE IF c.Action = StrEncode THEN (IF Len(c.Args) < 2 THEN "usage" ELSE "")
    ELSE IF c.Action = StrDecode THEN (IF Len(c.Args) < 2 THEN "usage" ELSE "")
    ELSE ""

\* Config.ValidateAction: "" when it returns nil, else the kind of its error
ValidateAction(c) ==
    IF c.Help THEN ""
    ELSE IF ValidateExecutorShellCompatibility(c) THEN "compatibility"
    ELSE IF c.Action = StrExecute THEN ""
    ELSE IF c.Action = StrEncode THEN (IF Len(c.Args) < 2 THEN "usage" ELSE "")
    ELSE IF c.Action = StrDecode THEN (IF Len(c.Args) < 2 THEN "usage" ELSE "")
    ELSE IF c.Action = StrInfo THEN ""
    ELSE "unknown action"

\* Config.GetCommand
GetCommand(c) ==
    IF Len(c.Args) < 2 THEN <<>>
    ELSE JoinSpace(Tail(c.Args))

(***************************************************************************)
(* Inputs                                                                  *)
(***************************************************************************)
HostOSes == {"windows", "linux", "darwin"}
LogLevelFlags == {"debug", "ERROR", "FATAL"}
ShellFlags == {"auto", "CMD", "powershell", "sh", "zsh"}
ExecutorFlags == {"base64", "Plain", "rot13"}
ActionWords == {StrExecute, StrEncode, StrDecode, StrInfo, StrBogus}
\* Words given after the action: "dir", "ZGly" (base64 of "dir"), "!" (no
\* base64) and the empty word ""
ArgWords == {StrDir, StrZGly, StrBang, <<>>}

\* Sequences over S of length at most n
SeqUpTo(S, n) == UNION {[1..k -> S] : k \in 0..n}

\* The positional arguments of a command line
ArgLists == {<<>>} \cup {<<a>> \o rest : a \in ActionWords, rest \in SeqUpTo(ArgWords, MaxArgs)}

\* Variant: cmd.Run reports an error only when the child does not start
RunFailsOnlyOnStart(r) == ~r.started

\* cmd.Run returns an error when the child does not start or exits non-zero
RunFails(r) == ~r.started \/ r.code # 0

\* Variant: main goes back to the action after a failed execution
AfterExecuteCommandRetries(runErr) == IF runErr THEN "Action" ELSE "exited"

\* main.go 64-68: where main goes when ExecuteCommand has returned; with an
\* error or without, the run is over
AfterExecuteCommand(runErr) == "exited"

\* What cmd.Run can meet: the child does not start, or it exits with a code
ChildResults == {[started |-> FALSE, code |-> -1]}
                \cup {[started |-> TRUE, code |-> c] : c \in {0, 1, 2}}

(***************************************************************************)
(* main                                                                    *)
(***************************************************************************)
Init ==
    /\ argv \in [logLevel : LogLevelFlags, shell : ShellFlags,
                 executor : ExecutorFlags, help : BOOLEAN, args : ArgLists,
                 flagError : BOOLEAN]
    /\ hostOS \in HostOSes
    /\ pc = "ParseConfig"
    /\ config = NoConfig
    /\ globalLogger = -1
    /\ shellType = -1
    /\ cmdExecutor = NoExecutor
    /\ spawned = <<>>
    /\ child = "none"
    /\ childCode = -1
    /\ stdout = <<>>
    /\ logs = <<>>
    /\ exitCode = -1
    /\ events = <<>>
    /\ err = ""
    /\ call = NoCall

\* main.go 13-19: ParseConfig.  flag.Parse (parser.go 29) ends the process
\* with exit code 2 when the command line holds a flag that is not defined
\* or a malformed flag value; otherwise, on an error of ParseConfig, main
\* prints it and the usage and exits 1
MainParseConfig ==
    /\ pc = "ParseConfig"
    /\ events' = Append(events, "ParseConfig")
    /\ IF argv.flagError
       THEN /\ stdout' = stdout \o <<Line("stderr: flag provided but not defined", <<>>),
                                     Line("stderr: usage", <<>>)>>
            /\ exitCode' = 2
            /\ pc' = "exited"
            /\ UNCHANGED <<config, err>>
       ELSE LET r == ParseConfig(argv) IN
            IF r.err
            THEN /\ err' = "no action specified"
                 /\ stdout' = stdout \o <<Line("Error: no action specified", <<>>),
                                          Line("usage", <<>>)>>
                 /\ exitCode' = 1
                 /\ pc' = "exited"
                 /\ config' = config
            ELSE /\ config' = r.config
                 /\ pc' = "InitLogger"
                 /\ UNCHANGED <<stdout, exitCode, err>>
    /\ UNCHANGED <<argv, hostOS, globalLogger, shellType, cmdExecutor, spawned,
                   child, childCode, logs, call>>

\* main.go 21-29: InitGlobalLogger; with -help print the usage and return
MainInitLogger ==
    /\ pc = "InitLogger"
    /\ globalLogger' = config.LogLevel
    /\ IF config.Help
       THEN /\ stdout' = Append(stdout, Line("usage", <<>>))
            /\ exitCode' = 0
            /\ pc' = "exited"
       ELSE /\ pc' = "ValidateAction"
            /\ UNCHANGED <<stdout, exitCode>>
    /\ UNCHANGED <<argv, hostOS, config, shellType, cmdExecutor, spawned, child, childCode,
                   logs, events, err, call>>

\* main.go 31-38: ValidateAction; on error log it, print the usage, exit 1
MainValidateAction ==
    /\ pc = "ValidateAction"
    /\ err' = ValidateAction(config)
    /\ events' = Append(events, "ValidateAction")
    /\ IF err' # ""
       THEN /\ logs' = logWithModule(logs, ERROR, "main", err')
            /\ stdout' = Append(stdout, Line("usage", <<>>))
            /\ exitCode' = 1
            /\ pc' = "exited"
       ELSE /\ logs' = logWithModule(logs, INFO, "main", "Starting Command Executor")
            /\ pc' = "CreateExecutor"
            /\ UNCHANGED <<stdout, exitCode>>
    /\ UNCHANGED <<argv, hostOS, config, globalLogger, shellType, cmdExecutor,
                   spawned, child, childCode, call>>

\* Variant: the override applied whatever the executor type
FactoryShellAnyExecutor(c) ==
    IF c.ShellType = AutoShell /\ IsWindows(hostOS) THEN PowerShellShell
    ELSE c.ShellType

\* Variant: no override, the configured shell goes to the factory
FactoryShellNoOverride(c) == c.ShellType

\* Variant: the override applied whatever the host
FactoryShellAnyHost(c) ==
    IF c.ExecutorType = Base64Type /\ c.ShellType = AutoShell THEN PowerShellShell
    ELSE c.ShellType

\* main.go 43-47: the shell main hands to the factory
FactoryShell(c) ==
    IF c.ExecutorType = Base64Type /\ c.ShellType = AutoShell /\ IsWindows(hostOS)
    THEN PowerShellShell
    ELSE c.ShellType

\* main.go 40-55: build the strategy and log the system information
MainCreateExecutor ==
    /\ pc = "CreateExecutor"
    /\ shellType' = FactoryShell(config)
    /\ cmdExecutor' = CreateExecutorWithShell(config.ExecutorType, shellType')
    /\ events' = Append(events, "CreateExecutorWithShell")
    /\ logs' = logWithModule(
                 logWithModule(
                   logWithModule(
                     logWithModule(logs, DEBUG, "executor.factory", "Creating executor"),
                     INFO, "main", "Running on"),
                   INFO, "main", "Using shell"),
                 INFO, "main", "Using executor")
    /\ pc' = "Action"
    /\ UNCHANGED <<argv, hostOS, config, globalLogger, spawned, child, childCode, stdout,
                   exitCode, err, call>>

\* main.go 61-64 and ExecuteCommand up to cmd.Run: either decoding fails,
\* ExecuteCommand returns the error and main exits 1 (65-68), or the child
\* process is started
MainExecute ==
    /\ pc = "Action"
    /\ config.Action = StrExecute
    /\ LET command == GetCommand(config)
           plan == ExecutePlan(cmdExecutor, command)
           l0 == logWithModule(logs, DEBUG, "main", "Executing command")
           l1 == ExecuteLogsBefore(l0, cmdExecutor, plan)
       IN
        /\ events' = Append(events, "ExecuteCommand")
        /\ IF plan.decodeErr
           THEN /\ err' = "failed to decode base64"
                /\ logs' = logWithModule(l1, ERROR, "main", "Error executing command")
                /\ exitCode' = 1
                /\ pc' = "exited"
                /\ UNCHANGED <<spawned, child>>
           ELSE /\ logs' = l1
                /\ spawned' = Append(spawned, plan.inv)
                /\ child' = "running"
                /\ pc' = "Run"
                /\ UNCHANGED <<exitCode, err>>
    /\ UNCHANGED <<argv, hostOS, config, globalLogger, shellType, cmdExecutor,
                   childCode, stdout, call>>

\* cmd.Run returns (the child failed to start, or it exited), ExecuteCommand
\* returns and main.go 65-68 exits 1 on an error
MainRunReturns ==
    /\ pc = "Run"
    /\ \E r \in ChildResults :
        LET runErr == RunFails(r)
            l1 == ExecuteLogsAfter(logs, cmdExecutor, runErr)
        IN  /\ child' = IF r.started THEN "exited" ELSE "failed to start"
            /\ childCode' = r.code
            /\ events' = Append(events, "cmd.Run returns")
            /\ IF runErr
               THEN /\ err' = "command execution failed"
                    /\ logs' = logWithModule(l1, ERROR, "main", "Error executing command")
                    /\ exitCode' = 1
               ELSE /\ err' = ""
                    /\ logs' = l1
                    /\ exitCode' = 0
            /\ pc' = AfterExecuteCommand(runErr)
    /\ UNCHANGED <<argv, hostOS, config, globalLogger, shellType, cmdExecutor,
                   spawned, stdout, call>>

\* main.go 70-75
MainEncode ==
    /\ pc = "Action"
    /\ config.Action = StrEncode
    /\ LET command == GetCommand(config)
           encoded == EncodeCommand(cmdExecutor, command)
           l0 == logWithModule(logs, DEBUG, "main", "Encoding command")
           l1 == IF cmdExecutor.kind = "plain"
                 THEN logWithModule(l0, DEBUG, "executor.plain", "no encoding needed")
                 ELSE l0
       IN
        /\ events' = Append(events, "EncodeCommand")
        /\ stdout' = Append(stdout, Line("Base64 encoded command: ", encoded))
        /\ logs' = logWithModule(l1, INFO, "main", "Command encoded successfully")
        /\ exitCode' = 0
        /\ pc' = "exited"
    /\ UNCHANGED <<argv, hostOS, config, globalLogger, shellType, cmdExecutor,
                   spawned, child, childCode, err, call>>

\* main.go 77-86
MainDecode ==
    /\ pc = "Action"
    /\ config.Action = StrDecode
    /\ LET encoded == GetCommand(config)
           d == DecodeCommand(cmdExecutor, encoded)
           l0 == logWithModule(logs, DEBUG, "main", "Decoding base64 command")
           l1 == IF cmdExecutor.kind = "plain"
                 THEN logWithModule(l0, DEBUG, "executor.plain", "no decoding needed")
                 ELSE l0
       IN
        /\ events' = Append(events, "DecodeCommand")
        /\ IF d.err
           THEN /\ err' = "failed to decode base64"
                /\ logs' = logWithModule(l1, ERROR, "main", "Error decoding")
                /\ exitCode' = 1
                /\ UNCHANGED stdout
           ELSE /\ err' = ""
                /\ stdout' = Append(stdout, Line("Decoded command: ", d.out))
                /\ logs' = logWithModule(l1, INFO, "main", "Command decoded successfully")
                /\ exitCode' = 0
        /\ pc' = "exited"
    /\ UNCHANGED <<argv, hostOS, config, globalLogger, shellType, cmdExecutor,
                   spawned, child, childCode, call>>

\* main.go 88-95: info prints the system information; any other action
\* prints a warning and the usage
MainInfo ==
    /\ pc = "Action"
    /\ config.Action \notin {StrExecute, StrEncode, StrDecode}
    /\ IF config.Action = StrInfo
       THEN /\ logs' = logWithModule(logs, INFO, "main", "Displaying system information")
            /\ stdout' = Append(stdout, Line("System Information", <<>>))
       ELSE /\ logs' = logWithModule(logs, WARN, "main", "Unknown action")
            /\ stdout' = Append(stdout, Line("usage", <<>>))
    /\ exitCode' = 0
    /\ pc' = "exited"
    /\ UNCHANGED <<argv, hostOS, config, globalLogger, shellType, cmdExecutor,
                   spawned, child, childCode, events, err, call>>

Next ==
    \/ MainParseConfig
    \/ MainInitLogger
    \/ MainValidateAction
    \/ MainCreateExecutor
    \/ MainExecute
    \/ MainRunReturns
    \/ MainEncode
    \/ MainDecode
    \/ MainInfo

Spec == Init /\ [][Next]_vars

(***************************************************************************)
(* The library called directly: the factory and the encode / decode        *)
(* operations of a strategy (ApiSpec), and the two shell resolvers         *)
(* (ResolverSpec), each with any argument.                                 *)
(***************************************************************************)
\* Values of the integer types ExecutorType and ShellType, the last one
\* outside the enumeration
ExecutorValues == {Base64Type, PlainType, 2}
ShellValues == {AutoShell, CMDShell, PowerShellShell, ShShell, 4}

\* "e acute" in UTF-8
StrEAcute == <<195, 169>>
\* U+1F600 in UTF-8
StrEmoji == <<240, 159, 152, 128>>
\* "PdgA3g==", the base64 of 3D D8 00 DE
StrEmojiUtf16 == <<80, 100, 103, 65, 51, 103, 61, 61>>

\* Bytes of the free-form strings: 'a', a single quote, and FF (no UTF-8)
ApiBytes == {97, 39, 255}
ApiStrings == SeqUpTo(ApiBytes, MaxLen) \cup {StrDir, StrZGly, StrBang, StrEAcute, StrEmoji}

ApiInit ==
    /\ argv = [logLevel |-> "", shell |-> "", executor |-> "", help |-> FALSE,
               args |-> <<>>, flagError |-> FALSE]
    /\ hostOS \in HostOSes
    /\ pc = "library"
    /\ config = NoConfig
    /\ globalLogger = INFO
    /\ shellType = -1
    /\ cmdExecutor = NoExecutor
    /\ spawned = <<>>
    /\ child = "none"
    /\ childCode = -1
    /\ stdout = <<>>
    /\ logs = <<>>
    /\ exitCode = -1
    /\ events = <<>>
    /\ err = ""
    /\ call = NoCall

ApiFrame == UNCHANGED <<argv, hostOS, pc, config, globalLogger, shellType, spawned,
                        child, childCode, stdout, exitCode, events, err>>

\* ExecutorFactory.CreateExecutorWithShell
ApiCreateExecutor ==
    /\ pc = "library"
    /\ \E e \in ExecutorValues, st \in ShellValues :
        /\ cmdExecutor' = CreateExecutorWithShell(e, st)
        /\ call' = [NoCall EXCEPT !.op = "CreateExecutorWithShell", !.shell = st]
    /\ logs' = logs
    /\ ApiFrame

\* EncodeCommand of the instance
ApiEncodeCommand ==
    /\ pc = "library"
    /\ cmdExecutor # NoExecutor
    /\ \E c \in ApiStrings :
        call' = [NoCall EXCEPT !.op = "EncodeCommand", !.arg = c,
                               !.out = EncodeCommand(cmdExecutor, c)]
    /\ UNCHANGED <<cmdExecutor, logs>>
    /\ ApiFrame

\* DecodeCommand of the instance, of any string or of the last result
ApiDecodeCommand ==
    /\ pc = "library"
    /\ cmdExecutor # NoExecutor
    /\ \E c \in ApiStrings \cup {call.out} :
        LET d == DecodeCommand(cmdExecutor, c)
        IN  call' = [NoCall EXCEPT !.op = "DecodeCommand", !.arg = c,
                                   !.out = d.out, !.err = d.err]
    /\ UNCHANGED <<cmdExecutor, logs>>
    /\ ApiFrame

ApiNext ==
    \/ ApiCreateExecutor
    \/ ApiEncodeCommand
    \/ ApiDecodeCommand

ApiSpec == ApiInit /\ [][ApiNext]_vars

\* GetShellCommand
ResolverGetShellCommand ==
    /\ pc = "library"
    /\ \E c \in ApiStrings, st \in ShellValues :
        call' = [NoCall EXCEPT !.op = "GetShellCommand", !.arg = c, !.shell = st,
                               !.inv = GetShellCommand(c, st)]
    /\ UNCHANGED <<cmdExecutor, logs>>
    /\ ApiFrame

\* GetShellCommandForBase64
ResolverGetShellCommandForBase64 ==
    /\ pc = "library"
    /\ \E c \in ApiStrings, st \in ShellValues :
        call' = [NoCall EXCEPT !.op = "GetShellCommandForBase64", !.arg = c,
                               !.shell = st, !.inv = GetShellCommandForBase64(c, st)]
    /\ UNCHANGED <<cmdExecutor, logs>>
    /\ ApiFrame

ResolverNext ==
    \/ ResolverGetShellCommand
    \/ ResolverGetShellCommandForBase64

ResolverSpec == ApiInit /\ [][ResolverNext]_vars

(***************************************************************************)
(* The loggers called directly (LoggerSpec): the SimpleLogger behind       *)
(* GetGlobalLogger, a ModuleLogger wrapping it (GetModuleLogger), and a    *)
(* ModuleLogger wrapping that one (NewModuleLogger of a Logger that is no  *)
(* SimpleLogger).                                                          *)
(***************************************************************************)
\* Calls that write to the log in one run of LoggerSpec
MaxLogLines == 2

LogLevels == {DEBUG, INFO, WARN, ERROR, FATAL}

\* The name of the method that logs at a level
LevelMethod(level) ==
    IF level = DEBUG THEN "Debug"
    ELSE IF level = INFO THEN "Info"
    ELSE IF level = WARN THEN "Warn"
    ELSE IF level = ERROR THEN "Error"
    ELSE "Fatal"

\* SimpleLogger.Debug .. Fatal: the line goes to log, without a module
SimpleLoggerLog(lines, level, msg) == logWithModule(lines, level, "", msg)

\* SimpleLogger.Fatal calls os.Exit(1) after logging; the other methods return
SimpleLoggerExits(level) == level = FATAL

\* ModuleLogger.Debug .. Fatal of a logger that wraps the SimpleLogger: the
\* type assertion succeeds and the line goes to logWithModule with the
\* module's name
ModuleLoggerLog(lines, level, module, msg) == logWithModule(lines, level, module, msg)

\* ModuleLogger.Fatal on a SimpleLogger returns after logWithModule: nothing
\* on this branch ends the process, at any level
ModuleLoggerExits(level) == FALSE

\* ModuleLogger.Debug .. Fatal of a logger that wraps another Logger: the
\* call is handed to the same method of the wrapped logger, here the
\* ModuleLogger of the module inner
WrappingLoggerLog(lines, level, inner, msg) == ModuleLoggerLog(lines, level, inner, msg)

WrappingLoggerExits(level) == ModuleLoggerExits(level)

LoggerInit ==
    /\ argv = [logLevel |-> "", shell |-> "", executor |-> "", help |-> FALSE,
               args |-> <<>>, flagError |-> FALSE]
    /\ hostOS \in HostOSes
    /\ pc = "library"
    /\ config = NoConfig
    /\ globalLogger \in LogLevels
    /\ shellType = -1
    /\ cmdExecutor = NoExecutor
    /\ spawned = <<>>
    /\ child = "none"
    /\ childCode = -1
    /\ stdout = <<>>
    /\ logs = <<>>
    /\ exitCode = -1
    /\ events = <<>>
    /\ err = ""
    /\ call = NoCall

LoggerFrame == UNCHANGED <<argv, hostOS, config, shellType, cmdExecutor, spawned,
                           child, childCode, stdout, events, err>>

\* A method of the SimpleLogger (utils.Debug .. utils.Fatal)
LoggerSimpleLogger ==
    /\ pc = "library"
    /\ Len(logs) < MaxLogLines
    /\ \E level \in LogLevels :
        /\ logs' = SimpleLoggerLog(logs, level, "message")
        /\ call' = [NoCall EXCEPT !.op = "SimpleLogger." \o LevelMethod(level)]
        /\ IF SimpleLoggerExits(level)
           THEN pc' = "exited" /\ exitCode' = 1
           ELSE UNCHANGED <<pc, exitCode>>
    /\ UNCHANGED globalLogger
    /\ LoggerFrame

\* A method of a ModuleLogger made by GetModuleLogger
LoggerModuleLogger ==
    /\ pc = "library"
    /\ Len(logs) < MaxLogLines
    /\ \E level \in LogLevels :
        /\ logs' = ModuleLoggerLog(logs, level, "main", "message")
        /\ call' = [NoCall EXCEPT !.op = "ModuleLogger." \o LevelMethod(level)]
        /\ IF ModuleLoggerExits(level)
           THEN pc' = "exited" /\ exitCode' = 1
           ELSE UNCHANGED <<pc, exitCode>>
    /\ UNCHANGED globalLogger
    /\ LoggerFrame

\* A method of a ModuleLogger made by NewModuleLogger of a ModuleLogger
LoggerWrappingLogger ==
    /\ pc = "library"
    /\ Len(logs) < MaxLogLines
    /\ \E level \in LogLevels :
        /\ logs' = WrappingLoggerLog(logs, level, "executor.base64", "message")
        /\ call' = [NoCall EXCEPT !.op = "ModuleLogger(ModuleLogger)." \o LevelMethod(level)]
        /\ IF WrappingLoggerExits(level)
           THEN pc' = "exited" /\ exitCode' = 1
           ELSE UNCHANGED <<pc, exitCode>>
    /\ UNCHANGED globalLogger
    /\ LoggerFrame

\* SetLevel, of the SimpleLogger or through a ModuleLogger
LoggerSetLevel ==
    /\ pc = "library"
    /\ \E level \in LogLevels :
        /\ globalLogger' = level
        /\ call' = [NoCall EXCEPT !.op = "SetLevel", !.shell = level]
    /\ UNCHANGED <<pc, exitCode, logs>>
    /\ LoggerFrame

LoggerNext ==
    \/ LoggerSimpleLogger
    \/ LoggerModuleLogger
    \/ LoggerWrappingLogger
    \/ LoggerSetLevel

LoggerSpec == LoggerInit /\ [][LoggerNext]_vars

(***************************************************************************)
(* One strategy instance used through all its methods (StrategySpec): the  *)
(* factory, SetShellType, EncodeCommand, DecodeCommand and ExecuteCommand, *)
(* cmd.Run included.                                                       *)
(***************************************************************************)
\* Calls of ExecuteCommand in one run of StrategySpec
MaxExecutes == 1

\* Commands given to the strategy: none, "ZGly", "!"
StrategyStrings == {<<>>, StrZGly, StrBang}

\* The executor types and the shell types of the enumerations
StrategyExecutors == {Base64Type, PlainType}
StrategyShells == {AutoShell, CMDShell, PowerShellShell, ShShell}

\* The library in a process that has called InitGlobalLogger(FATAL)
StrategyInit ==
    /\ argv = [logLevel |-> "", shell |-> "", executor |-> "", help |-> FALSE,
               args |-> <<>>, flagError |-> FALSE]
    /\ hostOS \in HostOSes
    /\ pc = "library"
    /\ config = NoConfig
    /\ globalLogger = FATAL
    /\ shellType = -1
    /\ cmdExecutor = NoExecutor
    /\ spawned = <<>>
    /\ child = "none"
    /\ childCode = -1
    /\ stdout = <<>>
    /\ logs = <<>>
    /\ exitCode = -1
    /\ events = <<>>
    /\ err = ""
    /\ call = NoCall

\* Variant: SetShellType also clears the default command
SetShellTypeClearsDefault(ex, st) == [ex EXCEPT !.shellType = st, !.defaultCommand = <<>>]

\* PlainExecutor.SetShellType / Base64Executor.SetShellType
SetShellType(ex, st) == [ex EXCEPT !.shellType = st]

StrategyCreateExecutor ==
    /\ pc = "library"
    /\ \E e \in StrategyExecutors, st \in StrategyShells :
        /\ cmdExecutor' = CreateExecutorWithShell(e, st)
        /\ call' = [NoCall EXCEPT !.op = "CreateExecutorWithShell", !.shell = st]
    /\ UNCHANGED logs
    /\ ApiFrame

StrategySetShellType ==
    /\ pc = "library"
    /\ cmdExecutor # NoExecutor
    /\ \E st \in StrategyShells :
        /\ cmdExecutor' = SetShellType(cmdExecutor, st)
        /\ call' = [NoCall EXCEPT !.op = "SetShellType", !.shell = st]
    /\ UNCHANGED logs
    /\ ApiFrame

StrategyEncodeCommand ==
    /\ pc = "library"
    /\ cmdExecutor # NoExecutor
    /\ \E c \in StrategyStrings :
        call' = [NoCall EXCEPT !.op = "EncodeCommand", !.arg = c,
                               !.out = EncodeCommand(cmdExecutor, c)]
    /\ logs' = IF cmdExecutor.kind = "plain"
               THEN logWithModule(logs, DEBUG, "executor.plain", "no encoding needed")
               ELSE logs
    /\ UNCHANGED cmdExecutor
    /\ ApiFrame

StrategyDecodeCommand ==
    /\ pc = "library"
    /\ cmdExecutor # NoExecutor
    /\ \E c \in StrategyStrings :
        LET d == DecodeCommand(cmdExecutor, c)
        IN  call' = [NoCall EXCEPT !.op = "DecodeCommand", !.arg = c,
                                   !.out = d.out, !.err = d.err]
    /\ logs' = IF cmdExecutor.kind = "plain"
               THEN logWithModule(logs, DEBUG, "executor.plain", "no decoding needed")
               ELSE logs
    /\ UNCHANGED cmdExecutor
    /\ ApiFrame

\* ExecuteCommand from the call to its return: the plan, and unless decoding
\* failed the child process and what cmd.Run returns
StrategyExecuteCommand ==
    /\ pc = "library"
    /\ cmdExecutor # NoExecutor
    /\ Len(events) < MaxExecutes
    /\ \E c \in StrategyStrings, r \in ChildResults :
        LET plan == ExecutePlan(cmdExecutor, c)
            l1 == ExecuteLogsBefore(logs, cmdExecutor, plan)
        IN  /\ events' = Append(events, "ExecuteCommand")
            /\ IF plan.decodeErr
               THEN /\ logs' = l1
                    /\ call' = [NoCall EXCEPT !.op = "ExecuteCommand", !.arg = c,
                                              !.err = TRUE]
                    /\ UNCHANGED <<spawned, child, childCode>>
               ELSE /\ spawned' = Append(spawned, plan.inv)
                    /\ child' = IF r.started THEN "exited" ELSE "failed to start"
                    /\ childCode' = r.code
                    /\ logs' = ExecuteLogsAfter(l1, cmdExecutor, RunFails(r))
                    /\ call' = [NoCall EXCEPT !.op = "ExecuteCommand", !.arg = c,
                                              !.err = RunFails(r), !.inv = plan.inv]
    /\ UNCHANGED <<argv, hostOS, pc, config, globalLogger, shellType, cmdExecutor,
                   stdout, exitCode, err>>

StrategyNext ==
    \/ StrategyCreateExecutor
    \/ StrategySetShellType
    \/ StrategyEncodeCommand
    \/ StrategyDecodeCommand
    \/ StrategyExecuteCommand

StrategySpec == StrategyInit /\ [][StrategyNext]_vars

(***************************************************************************)
(* Properties                                                              *)
(***************************************************************************)
\* ValidateAction has been called
Validated == \E i \in 1..Len(events) : events[i] = "ValidateAction"

\* The calls made on the strategy so far
StrategyCalls ==
    {i \in 1..Len(events) : events[i] \in {"ExecuteCommand", "EncodeCommand", "DecodeCommand"}}

\* Position of the first occurrence of e in events, 0 when there is none
FirstEvent(e) ==
    IF \E i \in 1..Len(events) : events[i] = e
    THEN CHOOSE i \in 1..Len(events) :
            events[i] = e /\ \A j \in 1..(i - 1) : events[j] # e
    ELSE 0

\* C1: once the validator has run, main holds a compatibility error exactly
\* when the configuration is (executor = Base64, shell = CMD); every other
\* pair of executor in {Plain, Base64} and shell in {Auto, CMD, PowerShell,
\* Sh} passes.
C1_CompatibilityMatrix ==
    Validated =>
        /\ config.ExecutorType \in {PlainType, Base64Type}
        /\ config.ShellType \in {AutoShell, CMDShell, PowerShellShell, ShShell}
        /\ (err = "compatibility")
             <=> (config.ExecutorType = Base64Type /\ config.ShellType = CMDShell)

C1_Witness ==
    /\ Validated
    /\ config.ExecutorType = Base64Type
    /\ config.ShellType = CMDShell
    /\ err = "compatibility"

\* C2: validation completes before the factory builds the strategy and
\* before any process is spawned; a run configured with executor = base64
\* and shell = cmd, without -help, never gets past validation and ends with
\* the compatibility error and exit code 1, with no strategy built, no
\* strategy operation called and no process spawned.  (A command line with
\* these flags and no action word gives no configuration: ParseConfig fails
\* and the run ends with exit code 1 just the same, nothing built or spawned;
\* a command line flag.Parse rejects ends there with exit code 2.)
C2_ValidationFirst ==
    /\ cmdExecutor # NoExecutor =>
         /\ FirstEvent("ValidateAction") > 0
         /\ FirstEvent("ValidateAction") < FirstEvent("CreateExecutorWithShell")
    /\ \A i \in StrategyCalls : FirstEvent("CreateExecutorWithShell") \in 1..(i - 1)
    /\ spawned # <<>> => (Validated /\ cmdExecutor # NoExecutor /\ StrategyCalls # {})
    /\ (~config.nil /\ ~config.Help
        /\ config.ExecutorType = Base64Type /\ config.ShellType = CMDShell) =>
         /\ pc \in {"InitLogger", "ValidateAction", "exited"}
         /\ cmdExecutor = NoExecutor
         /\ StrategyCalls = {}
         /\ spawned = <<>>
         /\ child = "none"
         /\ pc = "exited" => (err = "compatibility" /\ exitCode = 1)
    /\ (~argv.help
        /\ ParseExecutorType(argv.executor) = Base64Type
        /\ ParseShellType(argv.shell) = CMDShell) =>
         /\ cmdExecutor = NoExecutor
         /\ spawned = <<>>
         /\ pc = "exited" => exitCode = IF argv.flagError THEN 2 ELSE 1

C2_Witness ==
    /\ pc = "exited"
    /\ ~config.Help
    /\ config.Action = StrExecute
    /\ err = "compatibility"
    /\ exitCode = 1
    /\ cmdExecutor = NoExecutor
    /\ spawned = <<>>

\* C3: the shell handed to the factory is PowerShell when the executor is
\* Base64, the configured shell is Auto and the host is Windows, and the
\* configured shell in every other case; the strategy the factory returns
\* holds exactly that shell.
C3_FactoryShell ==
    cmdExecutor # NoExecutor =>
        /\ shellType = IF config.ExecutorType = Base64Type
                          /\ config.ShellType = AutoShell
                          /\ hostOS = "windows"
                       THEN PowerShellShell
                       ELSE config.ShellType
        /\ cmdExecutor.shellType = shellType
        /\ cmdExecutor.kind = IF config.ExecutorType = PlainType THEN "plain" ELSE "base64"

C3_Witness ==
    /\ cmdExecutor # NoExecutor
    /\ config.ExecutorType = Base64Type
    /\ config.ShellType = AutoShell
    /\ hostOS = "windows"
    /\ cmdExecutor.shellType = PowerShellShell

\* C4: a run whose executor is Base64 never spawns the program "cmd".
C4_Base64NeverSpawnsCmd ==
    (~config.nil /\ config.ExecutorType = Base64Type) =>
        \A i \in 1..Len(spawned) : spawned[i].prog # "cmd"

C4_Witness ==
    /\ config.ExecutorType = Base64Type
    /\ config.ShellType = AutoShell
    /\ hostOS = "windows"
    /\ Len(spawned) = 1
    /\ spawned[1].prog = "powershell"
    /\ child = "exited"

\* C5: for both builders the invocation built for shell = Auto is the one
\* built for CMD on a Windows host and the one built for Sh on any other.
C5_AutoResolution ==
    call.shell = AutoShell =>
        /\ call.op = "GetShellCommand" =>
             call.inv = IF hostOS = "windows"
                        THEN GetShellCommand(call.arg, CMDShell)
                        ELSE GetShellCommand(call.arg, ShShell)
        /\ call.op = "GetShellCommandForBase64" =>
             call.inv = IF hostOS = "windows"
                        THEN GetShellCommandForBase64(call.arg, CMDShell)
                        ELSE GetShellCommandForBase64(call.arg, ShShell)

C5_Witness ==
    /\ call.op = "GetShellCommand"
    /\ call.shell = AutoShell
    /\ hostOS = "windows"
    /\ call.arg = StrDir
    /\ call.inv = [prog |-> "cmd", opt |-> "/C", payload |-> StrDir]

\* C6: for a plaintext payload the resolver returns cmd /C payload for CMD,
\* powershell -Command payload for PowerShell and sh -c payload for Sh, the
\* payload unchanged as one argument; for every shell value, Auto and values
\* outside the enumeration included, the program is cmd, powershell or sh.
C6_PlainInvocation ==
    call.op = "GetShellCommand" =>
        /\ call.shell = CMDShell =>
             call.inv = [prog |-> "cmd", opt |-> "/C", payload |-> call.arg]
        /\ call.shell = PowerShellShell =>
             call.inv = [prog |-> "powershell", opt |-> "-Command", payload |-> call.arg]
        /\ call.shell = ShShell =>
             call.inv = [prog |-> "sh", opt |-> "-c", payload |-> call.arg]
        /\ call.inv.prog \in {"cmd", "powershell", "sh"}
        /\ call.inv.payload = call.arg

C6_Witness ==
    /\ call.op = "GetShellCommand"
    /\ call.shell \notin {AutoShell, CMDShell, PowerShellShell, ShShell}
    /\ hostOS = "darwin"
    /\ call.inv.prog = "sh"

\* "echo 'ZGly' | base64 -d | sh"
StrPipeZGly == <<101, 99, 104, 111, 32, 39, 90, 71, 108, 121, 39, 32, 124, 32, 98, 97,
                 115, 101, 54, 52, 32, 45, 100, 32, 124, 32, 115, 104>>

IsStdBase64Text(t) ==
    /\ Len(t) % 4 = 0
    /\ \A i \in 1..Len(t) :
         \/ B64Index(t[i]) >= 0
         \/ /\ t[i] = PadChar
            /\ i > Len(t) - 2
            /\ \A j \in (i + 1)..Len(t) : t[j] = PadChar

\* C8: a Base64 strategy whose shell is not PowerShell encodes a command as
\* the standard base64 of its bytes (four characters for every three bytes,
\* "dir" giving "ZGly"), and decoding that text returns the command with no
\* error; decoding "ZGly" returns "dir".
C8_Base64RoundTrip ==
    (cmdExecutor.kind = "base64" /\ cmdExecutor.shellType # PowerShellShell) =>
        /\ call.op = "EncodeCommand" =>
             /\ IsStdBase64Text(call.out)
             /\ Len(call.out) = 4 * ((Len(call.arg) + 2) \div 3)
             /\ call.out = EncodeToString(call.arg)
             /\ DecodeCommand(cmdExecutor, call.out) = [out |-> call.arg, err |-> FALSE]
             /\ call.arg = StrDir => call.out = StrZGly
             /\ call.arg = StrEAcute => call.out = <<119, 54, 107, 61>>
        /\ (call.op = "DecodeCommand" /\ call.arg = StrZGly) =>
             (call.out = StrDir /\ ~call.err)

C8_Witness ==
    /\ cmdExecutor.kind = "base64"
    /\ cmdExecutor.shellType = ShShell
    /\ call.op = "DecodeCommand"
    /\ call.arg = <<47, 47, 56, 61>>
    /\ call.out = <<255, 255>>
    /\ ~call.err

\* The line main printed for the encode action
EncodedLines == SelectSeq(stdout, LAMBDA l : l.label = "Base64 encoded command: ")

\* The run is the encode action on the command "dir" and has ended
EncodeDirDone ==
    /\ pc = "exited"
    /\ ~config.nil
    /\ ~config.Help
    /\ config.Action = StrEncode
    /\ GetCommand(config) = StrDir

\* C9 as stated: for the action encode with the command "dir" and a
\* configured shell other than powershell, the program prints "ZGly",
\* whatever the executor type and the host.
C9_AsStated ==
    (EncodeDirDone /\ config.ShellType # PowerShellShell) =>
        (Len(EncodedLines) = 1 /\ EncodedLines[1].text = StrZGly)

\* C9: for the action encode with the command "dir" and the base64
\* executor, the program prints "ZGly" when the configured shell is sh, or
\* auto on a host other than Windows.
C9_EncodeDir ==
    (/\ EncodeDirDone
     /\ config.ExecutorType = Base64Type
     /\ \/ config.ShellType = ShShell
        \/ config.ShellType = AutoShell /\ hostOS # "windows") =>
        /\ Len(EncodedLines) = 1
        /\ EncodedLines[1].text = StrZGly
        /\ exitCode = 0

C9_Witness ==
    /\ EncodeDirDone
    /\ config.ExecutorType = Base64Type
    /\ config.ShellType = AutoShell
    /\ hostOS = "linux"
    /\ stdout = <<Line("Base64 encoded command: ", StrZGly)>>

\* C10: a Base64 strategy whose shell is PowerShell encodes a command as the
\* base64 of its UTF-16 code units, two bytes each, low byte first, in
\* order; a character outside the BMP gives a surrogate pair, four bytes.
C10_PowerShellUtf16LE ==
    (/\ call.op = "EncodeCommand"
     /\ cmdExecutor.kind = "base64"
     /\ cmdExecutor.shellType = PowerShellShell) =>
        LET d == DecodeString(call.out)
            units == Utf16Encode(Runes(call.arg))
        IN  /\ d.ok
            /\ IsStdBase64Text(call.out)
            /\ Len(d.bytes) = 2 * Len(units)
            /\ \A i \in 1..Len(units) :
                 /\ d.bytes[2 * i - 1] = units[i] % 256
                 /\ d.bytes[2 * i] = units[i] \div 256
            /\ call.arg = StrDir => call.out = StrDirUtf16
            /\ call.arg = StrEAcute => call.out = <<54, 81, 65, 61>>
            /\ call.arg = StrEmoji =>
                 /\ units = <<55357, 56832>>
                 /\ d.bytes = <<61, 216, 0, 222>>
                 /\ call.out = StrEmojiUtf16

C10_Witness ==
    /\ call.op = "EncodeCommand"
    /\ cmdExecutor.kind = "base64"
    /\ cmdExecutor.shellType = PowerShellShell
    /\ call.arg = StrEmoji
    /\ call.out = StrEmojiUtf16

\* C11: the encode and decode operations of the Plain strategy return their
\* argument unchanged, whatever the string and whatever the strategy's shell,
\* and its decode never reports an error.
C11_PlainIdentity ==
    (pc = "library" /\ cmdExecutor.kind = "plain") =>
        /\ call.op = "EncodeCommand" => call.out = call.arg
        /\ call.op = "DecodeCommand" => call.out = call.arg /\ ~call.err
        /\ \A c \in ApiStrings :
            /\ EncodeCommand(cmdExecutor, c) = c
            /\ DecodeCommand(cmdExecutor, c) = [out |-> c, err |-> FALSE]

\* the Plain strategy decoded a string that is not base64 and returned it
C11_Witness ==
    /\ pc = "library"
    /\ cmdExecutor.kind = "plain"
    /\ call.op = "DecodeCommand"
    /\ call.arg = <<39>>
    /\ call.out = <<39>>
    /\ ~call.err

\* The execute action has called ExecuteCommand of the strategy
ExecuteCalled == Len(events) > 0 /\ "ExecuteCommand" \in {events[i] : i \in 1..Len(events)}

\* The lines logged by the strategies with this text
StrategyLog(msg) ==
    {i \in 1..Len(logs) : logs[i].msg = msg
                          /\ logs[i].module \in {"executor.plain", "executor.base64"}}

ArgvAction == IF Len(argv.args) > 0 THEN argv.args[1] ELSE <<>>

ArgvCommand == IF Len(argv.args) < 2 THEN <<>> ELSE JoinSpace(Tail(argv.args))

ConfigurationError ==
    /\ ~argv.help
    /\ \/ Len(argv.args) = 0
       \/ ArgvAction \notin {StrExecute, StrEncode, StrDecode, StrInfo}
       \/ ArgvAction \in {StrEncode, StrDecode} /\ Len(argv.args) < 2

CompatibilityError ==
    /\ ~argv.help
    /\ Len(argv.args) > 0
    /\ ParseExecutorType(argv.executor) = Base64Type
    /\ ParseShellType(argv.shell) = CMDShell

DecodingFailure ==
    /\ ~argv.help
    /\ ~ConfigurationError
    /\ ~CompatibilityError
    /\ ParseExecutorType(argv.executor) = Base64Type
    /\ \/ ArgvAction = StrDecode /\ ~DecodeString(ArgvCommand).ok
       \/ /\ ArgvAction = StrExecute
          /\ ArgvCommand # <<>>
          /\ ParseShellType(argv.shell) = AutoShell
          /\ ~IsWindows(hostOS)
          /\ ~DecodeString(ArgvCommand).ok

ExecutionFailure ==
    \/ child = "failed to start"
    \/ child = "exited" /\ childCode # 0

RunFailure == ConfigurationError \/ CompatibilityError \/ DecodingFailure \/ ExecutionFailure

C14_AsStated ==
    (pc = "exited" /\ ~argv.flagError /\ (argv.help \/ ArgvAction = StrInfo)) =>
        /\ exitCode = 0
        /\ \E i \in 1..Len(stdout) :
            stdout[i].label = IF argv.help THEN "usage" ELSE "System Information"

\* C15 as stated: for the execute action with the plain executor, the exit
\* code of the program equals the exit code of the child process, for every
\* exit code of the child.
C15_AsStated ==
    (pc = "exited" /\ ExecuteCalled /\ cmdExecutor.kind = "plain" /\ child = "exited") =>
        exitCode = childCode

\* C15: for the execute action with the plain executor, the program ends
\* with exit code 0 when the child exits with code 0, and with exit code 1
\* when the child exits with any other code or does not start.
C15_ExitCodeOfExecute ==
    (pc = "exited" /\ ExecuteCalled /\ cmdExecutor.kind = "plain") =>
        /\ Len(spawned) = 1
        /\ child \in {"exited", "failed to start"}
        /\ exitCode = IF child = "exited" /\ childCode = 0 THEN 0 ELSE 1

\* the plain executor with the sh shell ran sh -c "dir", the child exited
\* with code 2 and the program with code 1
C15_Witness ==
    /\ pc = "exited"
    /\ ExecuteCalled
    /\ cmdExecutor.kind = "plain"
    /\ cmdExecutor.shellType = ShShell
    /\ spawned = <<Command("sh", "-c", StrDir)>>
    /\ child = "exited"
    /\ childCode = 2
    /\ exitCode = 1

\* How many times an event happened in the run
EventCount(e) == Cardinality({i \in 1..Len(events) : events[i] = e})

\* C16 as stated: a run whose execute operation has returned has spawned
\* exactly one child process, and that child is no longer running.
C16_AsStated ==
    (ExecuteCalled /\ pc = "exited") =>
        /\ Len(spawned) = 1
        /\ child # "running"

\* C16: an invocation of execute makes one attempt to spawn a child process,
\* and none when it has to decode the command itself and the decoding fails;
\* it returns only when the child has exited or has failed to start.  No run
\* spawns more than one child, a run without execute spawns none, and after
\* a failure nothing is tried again.
C16_OneChild ==
    /\ Len(spawned) <= 1
    /\ EventCount("ExecuteCommand") <= 1
    /\ EventCount("cmd.Run returns") <= 1
    /\ ~ExecuteCalled => spawned = <<>> /\ child = "none"
    /\ child = "running" => pc = "Run" /\ Len(spawned) = 1
    /\ pc = "Run" => child = "running"
    /\ (ExecuteCalled /\ pc = "exited") =>
        /\ Len(spawned) = IF DecodingFailure THEN 0 ELSE 1
        /\ child = IF DecodingFailure THEN "none"
                   ELSE IF childCode = -1 THEN "failed to start"
                   ELSE "exited"
        /\ EventCount("cmd.Run returns") = Len(spawned)

\* the child of an execute failed, the run is over and spawned nothing more
C16_Witness ==
    /\ ExecuteCalled
    /\ pc = "exited"
    /\ Len(spawned) = 1
    /\ child = "exited"
    /\ childCode = 1
    /\ exitCode = 1

\* The shell a strategy's stored shell type resolves to on this host
ResolvedShell(st) ==
    IF st = AutoShell THEN (IF IsWindows(hostOS) THEN CMDShell ELSE ShShell)
    ELSE st

\* C17 as stated: when the shell of the Base64 strategy resolves to
\* PowerShell or sh (auto resolving to sh on a host other than Windows),
\* execute does not decode the payload itself and the spawned process gets
\* the payload still encoded: powershell -EncodedCommand <payload>, or
\* sh -c "echo '<payload>' | base64 -d | sh"; only when the shell resolves to
\* cmd does it decode first and run the plain text.
C17_AsStated ==
    (ExecuteCalled /\ cmdExecutor.kind = "base64" /\ pc = "exited") =>
        LET command == GetCommand(config)
            payload == IF command = <<>> THEN cmdExecutor.defaultCommand ELSE command
            resolved == ResolvedShell(cmdExecutor.shellType)
        IN  /\ resolved = PowerShellShell =>
                spawned = <<Command("powershell", "-EncodedCommand", payload)>>
            /\ resolved = ShShell =>
                spawned = <<Command("sh", "-c", StrEchoOpen \o payload \o StrPipeTail)>>
            /\ resolved = CMDShell =>
                \/ spawned = <<Command("cmd", "/C", DecodeCommand(cmdExecutor, payload).out)>>
                \/ spawned = <<>> /\ DecodeCommand(cmdExecutor, payload).err

\* C18 as stated: whatever the host and the shell type given to the factory,
\* the default command stored in a Base64 strategy is what the strategy's
\* own EncodeCommand makes of the host's default command ("ipconfig" on
\* Windows, "ifconfig" elsewhere): UTF-16LE base64 when its shell is
\* PowerShell, UTF-8 base64 otherwise.
C18_AsStated ==
    (pc = "library" /\ cmdExecutor.kind = "base64") =>
        LET osDefault == IF IsWindows(hostOS) THEN StrIpconfig ELSE StrIfconfig
        IN  /\ cmdExecutor.defaultCommand = EncodeCommand(cmdExecutor, osDefault)
            /\ cmdExecutor.defaultCommand =
                  IF cmdExecutor.shellType = PowerShellShell
                  THEN EncodeToString(utf16Bytes(Utf16Encode(Runes(osDefault))))
                  ELSE EncodeToString(osDefault)

\* The Base64 strategy of the run decodes the payload itself before it runs it
DecodeFirst ==
    /\ cmdExecutor.kind = "base64"
    /\ cmdExecutor.shellType \notin {PowerShellShell, ShShell}

\* The lines of standard output with this label
StdoutLines(label) == {i \in 1..Len(stdout) : stdout[i].label = label}

\* C19: when execute of the Base64 strategy decodes first and the payload is
\* not valid standard base64, it returns an error and no child process is
\* spawned (the run ends with exit code 1); DecodeCommand returns the empty
\* string together with the error, and the decode action prints no decoded
\* text.
C19_DecodeError ==
    LET payload == GetCommand(config)
        bad == payload # <<>> /\ ~DecodeString(payload).ok
    IN  /\ (ExecuteCalled /\ DecodeFirst /\ bad) =>
            /\ DecodeCommand(cmdExecutor, payload) = [out |-> <<>>, err |-> TRUE]
            /\ pc = "exited"
            /\ err = "failed to decode base64"
            /\ exitCode = 1
            /\ spawned = <<>>
            /\ child = "none"
            /\ EventCount("cmd.Run returns") = 0
        /\ (EventCount("DecodeCommand") > 0 /\ cmdExecutor.kind = "base64" /\ bad) =>
            /\ DecodeCommand(cmdExecutor, payload) = [out |-> <<>>, err |-> TRUE]
            /\ err = "failed to decode base64"
            /\ exitCode = 1
            /\ StdoutLines("Decoded command: ") = {}

\* execute on the decode-first path was given "!" and returned the error
C19_Witness ==
    /\ ExecuteCalled
    /\ DecodeFirst
    /\ GetCommand(config) = StrBang
    /\ pc = "exited"
    /\ err = "failed to decode base64"
    /\ spawned = <<>>
    /\ exitCode = 1

\* The error reports of a run: the lines logged at Error level by the
\* strategy and by main, and the error lines printed on standard output
ErrorReports ==
    Cardinality({i \in 1..Len(logs) : logs[i].level = ERROR})
    + Cardinality(StdoutLines("Error: no action specified"))

\* C20 as stated: a run that fails with a validation error, a decoding
\* failure or a child that did not start or exited non-zero emits exactly
\* one error report, counting the strategy and main together.
C20_AsStated ==
    (pc = "exited" /\ ~argv.flagError /\ Len(argv.args) > 0 /\ RunFailure) =>
        ErrorReports = 1

\* The last call was the Fatal, or the Error, method of one of the loggers
FatalCalled ==
    call.op \in {"SimpleLogger.Fatal", "ModuleLogger.Fatal", "ModuleLogger(ModuleLogger).Fatal"}

ErrorCalled ==
    call.op \in {"SimpleLogger.Error", "ModuleLogger.Error", "ModuleLogger(ModuleLogger).Error"}

\* C21 as stated: a call of Fatal ends the process at once, with exit code
\* 1, through the SimpleLogger and through a ModuleLogger alike; a call of
\* Error only reports and the process goes on.
C21_AsStated ==
    /\ FatalCalled => pc = "exited" /\ exitCode = 1
    /\ ErrorCalled => pc = "library" /\ exitCode = -1

\* C22 as stated: after its construction no method of a strategy instance
\* changes its shellType or its defaultCommand.
C22_AsStated ==
    [][(cmdExecutor # NoExecutor /\ call'.op # "CreateExecutorWithShell") =>
           /\ cmdExecutor'.shellType = cmdExecutor.shellType
           /\ cmdExecutor'.defaultCommand = cmdExecutor.defaultCommand]_vars

\* C22: the defaultCommand of a strategy instance is set at construction
\* and never changed; its shellType is changed by SetShellType, which
\* stores the shell it is given, and by no other method: ExecuteCommand,
\* EncodeCommand and DecodeCommand change neither field, and ExecuteCommand
\* uses the shell stored at the time of the call.
C22_FieldsFrame ==
    [][(cmdExecutor # NoExecutor /\ call'.op # "CreateExecutorWithShell") =>
           /\ cmdExecutor'.kind = cmdExecutor.kind
           /\ cmdExecutor'.defaultCommand = cmdExecutor.defaultCommand
           /\ call'.op = "SetShellType" => cmdExecutor'.shellType = call'.shell
           /\ call'.op # "SetShellType" => cmdExecutor' = cmdExecutor
           /\ (call'.op = "ExecuteCommand" /\ Len(spawned') > Len(spawned)) =>
               /\ spawned'[Len(spawned')] = call'.inv
               /\ cmdExecutor.shellType = PowerShellShell => call'.inv.prog = "powershell"
               /\ cmdExecutor.shellType = ShShell => call'.inv.prog = "sh"
               /\ cmdExecutor.shellType = CMDShell => call'.inv.prog = "cmd"]_vars

\* a plain strategy ran a command with sh on Windows and was then given the
\* PowerShell shell by SetShellType
C22_Witness ==
    /\ pc = "library"
    /\ hostOS = "windows"
    /\ call.op = "SetShellType"
    /\ call.shell = PowerShellShell
    /\ cmdExecutor.kind = "plain"
    /\ cmdExecutor.shellType = PowerShellShell
    /\ cmdExecutor.defaultCommand = StrIpconfig
    /\ Len(spawned) = 1
    /\ spawned[1].prog = "sh"

====
